---- MODULE Spec2Model ----
(***************************************************************************)
(* Model of resumeparser.py: PDF text extraction with fallback, the        *)
(* detail extractor (one request to the completion service), the two batch *)
(* loops, and the session result collection st.session_state.processed_data*)
(* with the handlers of main() that change it.                             *)
(*                                                                         *)
(* Strings are sequences of characters.  Python values returned by         *)
(* json.loads are records [type, keys, source_file].  Every call to a      *)
(* Streamlit widget, to a PDF library or to the completion service is      *)
(* recorded, in program order, in a sequence of effects.                   *)
(***************************************************************************)
EXTENDS Naturals, Sequences, FiniteSets

VARIABLES processed_data, appended, last, call

vars == <<processed_data, appended, last, call>>

(***************************************************************************)
(* Bounds of the model.                                                    *)
(***************************************************************************)
MaxPages == 2
MaxFiles == 3
MaxRows == 2
MaxStore == 2

(***************************************************************************)
(* Strings and str.strip().                                                *)
(***************************************************************************)
Whitespace == {" ", "\n"}

EmptyStr == << >>

RECURSIVE lstrip(_)
lstrip(s) ==
    IF s = << >> THEN << >>
    ELSE IF Head(s) \in Whitespace THEN lstrip(Tail(s)) ELSE s

RECURSIVE rstrip(_)
rstrip(s) ==
    IF s = << >> THEN << >>
    ELSE IF s[Len(s)] \in Whitespace THEN rstrip(SubSeq(s, 1, Len(s) - 1)) ELSE s

strip(s) == rstrip(lstrip(s))

\* Python truth value of a str: non-empty.
StrTruthy(s) == s # << >>

\* What one page yields: nothing, whitespace only, or some text.
PageTexts == { << >>, <<" ">>, <<"a">> }

RECURSIVE SeqsUpTo(_, _)
SeqsUpTo(S, n) ==
    IF n = 0 THEN { << >> }
    ELSE LET shorter == SeqsUpTo(S, n - 1)
         IN  shorter \cup { Append(q, x) : q \in { r \in shorter : Len(r) = n - 1 }, x \in S }

SeqsOfLen(S, n) == { q \in SeqsUpTo(S, n) : Len(q) = n }

(***************************************************************************)
(* Effects, in program order.                                              *)
(*   e    which call                                                       *)
(*   i    1-based index of the batch item the call belongs to (0: none)    *)
(*   n    total of the batch for "progress", stream offset for the PDF     *)
(*        library calls and seek                                           *)
(*   text the text handed to the completion service                        *)
(***************************************************************************)
Fx(e, i, n, text) == [e |-> e, i |-> i, n |-> n, text |-> text]

(***************************************************************************)
(* extract_text_from_pdf (lines 59-84).                                    *)
(* A document is what the two libraries make of it: whether each raises,   *)
(* and the text of each page.  The stream starts at offset 0 and the       *)
(* primary strategy leaves it at the end of the file.                      *)
(***************************************************************************)
StreamEnd(pdf) == Len(pdf.plumber_pages) + 1

\* lines 63-68: pages with a falsy text are left out, the others get "\n".
RECURSIVE PlumberText(_)
PlumberText(pages) ==
    IF pages = << >> THEN << >>
    ELSE LET page_text == Head(pages)
         IN  (IF StrTruthy(page_text) THEN page_text \o <<"\n">> ELSE << >>)
                 \o PlumberText(Tail(pages))

\* lines 76-78: every page's text followed by "\n".
RECURSIVE PyPdfText(_)
PyPdfText(pages) ==
    IF pages = << >> THEN << >>
    ELSE Head(pages) \o <<"\n">> \o PyPdfText(Tail(pages))

\* line 74: pdf_file.seek(0)
SeekTarget == 0

\* A plausible slip: the primary strategy's text is returned whatever it is.
extract_text_no_fallback(pdf) ==
    IF pdf.plumber_raises
    THEN [ret |-> EmptyStr,
          fx  |-> << Fx("pdfplumber.open", 0, 0, EmptyStr), Fx("st.error", 0, 0, EmptyStr) >>]
    ELSE [ret |-> PlumberText(pdf.plumber_pages),
          fx  |-> << Fx("pdfplumber.open", 0, StreamEnd(pdf), EmptyStr) >>]

\* Returns [ret, fx]: the text, and the calls made.  The effect of
\* pdfplumber.open and of seek carries the offset the stream is left at, the
\* effect of PyPDF2.PdfReader the offset the stream is at when it is built.
extract_text_from_pdf(pdf) ==
    LET failed == << Fx("st.error", 0, 0, EmptyStr) >>
    IN
    IF pdf.plumber_raises
    THEN [ret |-> EmptyStr, fx |-> << Fx("pdfplumber.open", 0, 0, EmptyStr) >> \o failed]
    ELSE
      LET text   == PlumberText(pdf.plumber_pages)
          pos1   == StreamEnd(pdf)
          opened == << Fx("pdfplumber.open", 0, pos1, EmptyStr) >>
      IN
      IF StrTruthy(strip(text))
      THEN [ret |-> text, fx |-> opened]
      ELSE
        LET pos2   == SeekTarget
            seeked == opened \o << Fx("seek", 0, pos2, EmptyStr),
                                   Fx("PyPDF2.PdfReader", 0, pos2, EmptyStr) >>
        IN
        IF pdf.pypdf_raises
        THEN [ret |-> EmptyStr, fx |-> seeked \o failed]
        ELSE [ret |-> PyPdfText(pdf.pypdf_pages), fx |-> seeked]

\* The documents of the model: up to MaxPages pages, every combination of
\* what the two libraries read on each page, and of which library raises.
PageReadings == [plumber : PageTexts, pypdf : PageTexts]

RECURSIVE Column(_, _)
Column(pages, f) ==
    IF pages = << >> THEN << >> ELSE << Head(pages)[f] >> \o Column(Tail(pages), f)

Doc(name, pages, pr, fr) ==
    [name |-> name,
     plumber_raises |-> pr, plumber_pages |-> Column(pages, "plumber"),
     pypdf_raises |-> fr, pypdf_pages |-> Column(pages, "pypdf")]

PdfDocs ==
    { Doc("cv.pdf", pages, pr, fr) :
        pages \in SeqsUpTo(PageReadings, MaxPages), pr \in BOOLEAN, fr \in BOOLEAN }

(***************************************************************************)
(* Python values as json.loads returns them, and their truth value.        *)
(* A dict is its set of keys (the values play no part in the control flow),*)
(* plus the value of "source_file" once that key is set.                   *)
(***************************************************************************)
NoFile == "-"

None == [type |-> "NoneType", keys |-> {}, n_items |-> 0, source_file |-> NoFile]

Dict(keys) == [type |-> "dict", keys |-> keys, n_items |-> Cardinality(keys), source_file |-> NoFile]

\* A JSON array with one element, e.g. [1].
List1 == [type |-> "list", keys |-> {}, n_items |-> 1, source_file |-> NoFile]

\* bool(v): None, {} and [] are falsy.
Truthy(v) == v.type # "NoneType" /\ v.n_items > 0

\* details['source_file'] = name, on a dict.
SetSourceFile(details, name) ==
    [details EXCEPT !.keys = @ \cup {"source_file"},
                    !.n_items = Cardinality(details.keys \cup {"source_file"}),
                    !.source_file = name]

(***************************************************************************)
(* The completion service as extract_applicant_details sees it (lines      *)
(* 25-53): the request raises, the response has no function_call, its      *)
(* arguments are not JSON, or they are a JSON value.  The schema (lines    *)
(* 36-45) names four properties, all required; the code does not check the *)
(* payload against it.                                                     *)
(***************************************************************************)
Properties == {"name", "email", "skills", "experience_years"}

Required == {"name", "email", "skills", "experience_years"}

Failures == {"network_error", "auth_error", "no_function_call", "invalid_json"}

Failure(kind) == [outcome |-> kind, value |-> None]

Payload(v) == [outcome |-> "payload", value |-> v]

FullRecord == Dict(Properties)

\* Every answer of the service: each failure, each JSON object over the
\* schema's properties, and a JSON array.
Responses ==
    { Failure(k) : k \in Failures }
        \cup { Payload(Dict(ks)) : ks \in SUBSET Properties }
        \cup { Payload(List1) }

\* The answers the batch runs draw from: a failure, a complete record, an
\* empty object and an array.
BatchResponses ==
    { Failure("network_error"), Payload(FullRecord), Payload(Dict({})), Payload(List1) }

\* The answers the session draws from: those, and a record without email.
SessionResponses ==
    BatchResponses \cup { Payload(Dict(Properties \ {"email"})) }

\* A plausible slip: only the request is guarded, json.loads is not.
extract_applicant_details_unguarded_parse(resume_text, response) ==
    LET request == << Fx("chat.completions.create", 0, 0, resume_text) >>
    IN  IF response.outcome \in {"network_error", "auth_error"}
        THEN [ret |-> None, raised |-> FALSE,
              fx |-> request \o << Fx("st.error", 0, 0, EmptyStr) >>]
        ELSE IF response.outcome \in {"no_function_call", "invalid_json"}
        THEN [ret |-> None, raised |-> TRUE, fx |-> request]
        ELSE [ret |-> response.value, raised |-> FALSE, fx |-> request]

\* Returns [ret, raised, fx].  Everything from the request to json.loads is
\* inside the try; except Exception reports and returns None.
extract_applicant_details(resume_text, response) ==
    LET request == << Fx("chat.completions.create", 0, 0, resume_text) >>
    IN  IF response.outcome \in Failures
        THEN [ret |-> None, raised |-> FALSE,
              fx |-> request \o << Fx("st.error", 0, 0, EmptyStr) >>]
        ELSE [ret |-> response.value, raised |-> FALSE, fx |-> request]

\* lines 55-57
process_single_resume(resume_text, response) ==
    extract_applicant_details(resume_text, response)

\* The effects of a call made for batch item k.
Tag(fx, k) == [j \in DOMAIN fx |-> [fx[j] EXCEPT !.i = k]]

(***************************************************************************)
(* process_multiple_pdfs (lines 86-110).                                   *)
(* L is the loop's local state: the running list, the effects so far, and  *)
(* whether an exception has left the loop.  resps[k] is what the service   *)
(* answers if it is asked about item k.                                    *)
(***************************************************************************)
\* A plausible slip: every record is tagged with the first file's name.
PdfBodyTagsFirst(L, k, pdf_files, response) ==
    LET x == extract_text_from_pdf(pdf_files[k])
        d == extract_applicant_details(x.ret, response)
        fx1 == L.fx \o << Fx("status_text", k, Len(pdf_files), EmptyStr),
                          Fx("progress", k, Len(pdf_files), EmptyStr) >> \o Tag(x.fx, k)
    IN  IF ~StrTruthy(strip(x.ret))
        THEN [L EXCEPT !.fx = fx1 \o << Fx("st.warning", k, 0, EmptyStr) >>]
        ELSE IF Truthy(d.ret) /\ d.ret.type = "dict"
        THEN [L EXCEPT !.fx = fx1 \o Tag(d.fx, k),
                       !.extracted_details =
                           Append(@, SetSourceFile(d.ret, pdf_files[1].name))]
        ELSE [L EXCEPT !.fx = fx1 \o Tag(d.fx, k), !.raised = Truthy(d.ret)]

\* A plausible slip: the bar is set from the 0-based index.
PdfBodyProgressFromZero(L, k, pdf_files, response) ==
    LET x == extract_text_from_pdf(pdf_files[k])
        d == extract_applicant_details(x.ret, response)
        fx1 == L.fx \o << Fx("status_text", k, Len(pdf_files), EmptyStr),
                          Fx("progress", k - 1, Len(pdf_files), EmptyStr) >> \o Tag(x.fx, k)
    IN  IF ~StrTruthy(strip(x.ret))
        THEN [L EXCEPT !.fx = fx1 \o << Fx("st.warning", k, 0, EmptyStr) >>]
        ELSE IF Truthy(d.ret) /\ d.ret.type = "dict"
        THEN [L EXCEPT !.fx = fx1 \o Tag(d.fx, k),
                       !.extracted_details =
                           Append(@, SetSourceFile(d.ret, pdf_files[k].name))]
        ELSE [L EXCEPT !.fx = fx1 \o Tag(d.fx, k), !.raised = Truthy(d.ret)]

\* The loop body for the k-th file (k = i + 1), lines 95-107.
PdfBody(L, k, pdf_files, response) ==
    LET pdf_file == pdf_files[k]
        total    == Len(pdf_files)
        \* lines 95-96
        fx1 == L.fx \o << Fx("status_text", k, total, EmptyStr),
                          Fx("progress", k, total, EmptyStr) >>
        \* line 99
        x   == extract_text_from_pdf(pdf_file)
        fx2 == fx1 \o Tag(x.fx, k)
    IN
    IF StrTruthy(strip(x.ret))
    THEN
      \* line 102
      LET d   == extract_applicant_details(x.ret, response)
          fx3 == fx2 \o Tag(d.fx, k)
      IN
      IF d.raised
      THEN [L EXCEPT !.fx = fx3, !.raised = TRUE]
      ELSE IF Truthy(d.ret)
      THEN
        \* line 104: item assignment with a str key raises TypeError on a list
        IF d.ret.type = "dict"
        THEN [L EXCEPT !.fx = fx3,
                       !.extracted_details = Append(@, SetSourceFile(d.ret, pdf_file.name))]
        ELSE [L EXCEPT !.fx = fx3, !.raised = TRUE]
      ELSE [L EXCEPT !.fx = fx3]
    ELSE
      \* line 107
      [L EXCEPT !.fx = fx2 \o << Fx("st.warning", k, 0, EmptyStr) >>]

RECURSIVE PdfLoop(_, _, _, _)
PdfLoop(L, k, pdf_files, resps) ==
    IF k > Len(pdf_files) \/ L.raised THEN L
    ELSE PdfLoop(PdfBody(L, k, pdf_files, resps[k]), k + 1, pdf_files, resps)

\* Returns [ret, raised, fx]; ret is the returned list when raised is FALSE.
process_multiple_pdfs(pdf_files, resps) ==
    LET total == Len(pdf_files)
        \* lines 88-92
        L0 == [extracted_details |-> << >>,
               fx |-> << Fx("progress", 0, total, EmptyStr) >>,
               raised |-> FALSE]
        L  == PdfLoop(L0, 1, pdf_files, resps)
    IN  IF L.raised
        THEN [ret |-> << >>, raised |-> TRUE, fx |-> L.fx]
        ELSE [ret |-> L.extracted_details, raised |-> FALSE,
              fx |-> L.fx \o << Fx("status_text", 0, total, EmptyStr) >>]

(***************************************************************************)
(* process_resumes_from_dataframe (lines 112-137).                         *)
(* A table is its set of column names and the cells of its text column     *)
(* (the column Resume_str when it has that name).                          *)
(***************************************************************************)
RequiredColumn == "Resume_str"

Min(a, b) == IF a < b THEN a ELSE b

\* Series.head(n) for n >= 0
head(rows, n) == SubSeq(rows, 1, Min(n, Len(rows)))

\* The loop body for the k-th resume (k = i + 1), lines 129-134.
DfBody(L, k, resumes, response) ==
    LET total == Len(resumes)
        fx1 == L.fx \o << Fx("status_text", k, total, EmptyStr),
                          Fx("progress", k, total, EmptyStr) >>
        d   == extract_applicant_details(resumes[k], response)
        fx2 == fx1 \o Tag(d.fx, k)
    IN
    IF d.raised
    THEN [L EXCEPT !.fx = fx2, !.raised = TRUE]
    ELSE IF Truthy(d.ret)
    THEN [L EXCEPT !.fx = fx2, !.extracted_details = Append(@, d.ret)]
    ELSE [L EXCEPT !.fx = fx2]

RECURSIVE DfLoop(_, _, _, _)
DfLoop(L, k, resumes, resps) ==
    IF k > Len(resumes) \/ L.raised THEN L
    ELSE DfLoop(DfBody(L, k, resumes, resps[k]), k + 1, resumes, resps)

\* A plausible slip: the column check is left out and the text column is read
\* whatever its name.
process_resumes_unchecked(df, resps, num_rows) ==
    LET resumes == head(df.rows, num_rows)
        L == DfLoop([extracted_details |-> << >>,
                     fx |-> << Fx("progress", 0, Len(resumes), EmptyStr) >>,
                     raised |-> FALSE], 1, resumes, resps)
    IN  [ret |-> L.extracted_details, raised |-> L.raised, fx |-> L.fx]

\* Returns [ret, raised, fx].
process_resumes_from_dataframe(df, resps, num_rows) ==
    IF RequiredColumn \notin df.columns
    THEN \* lines 117-119
         [ret |-> << >>, raised |-> FALSE, fx |-> << Fx("st.error", 0, 0, EmptyStr) >>]
    ELSE
      LET \* line 122
          resumes == head(df.rows, num_rows)
          \* lines 125-126
          L0 == [extracted_details |-> << >>,
                 fx |-> << Fx("progress", 0, Len(resumes), EmptyStr) >>,
                 raised |-> FALSE]
          L  == DfLoop(L0, 1, resumes, resps)
      IN  IF L.raised
          THEN [ret |-> << >>, raised |-> TRUE, fx |-> L.fx]
          ELSE [ret |-> L.extracted_details, raised |-> FALSE,
                fx |-> L.fx \o << Fx("status_text", 0, Len(resumes), EmptyStr) >>]

(***************************************************************************)
(* The handlers of main() that change st.session_state.processed_data.     *)
(* Each returns [added, raised, fx]: the records it appends to the         *)
(* collection, whether an exception left the handler, and its effects.     *)
(***************************************************************************)
\* line 19
FreshCollection == << >>

\* A plausible slip: the new records are put in front.
extend_at_front(collection, records) == records \o collection

\* list.append / list.extend
Extend(collection, records) == collection \o records

\* "Extract Details", lines 181-208
HandleTextInput(resume_text, response) ==
    IF StrTruthy(strip(resume_text))
    THEN
      LET d  == process_single_resume(resume_text, response)
          fx == Tag(d.fx, 1)
      IN
      IF d.raised
      THEN [added |-> << >>, raised |-> TRUE, fx |-> fx]
      ELSE IF Truthy(d.ret)
      THEN \* lines 192-198: details.get raises AttributeError on a list
           IF d.ret.type = "dict"
           THEN [added |-> << d.ret >>, raised |-> FALSE, fx |-> fx]
           ELSE [added |-> << >>, raised |-> TRUE, fx |-> fx]
      ELSE [added |-> << >>, raised |-> FALSE, fx |-> fx]
    ELSE [added |-> << >>, raised |-> FALSE, fx |-> << Fx("st.warning", 0, 0, EmptyStr) >>]

\* "Extract from PDF", lines 226-265
HandleSinglePdf(uploaded_pdf, response) ==
    LET x   == extract_text_from_pdf(uploaded_pdf)
        fx1 == Tag(x.fx, 1)
    IN
    IF StrTruthy(strip(x.ret))
    THEN
      LET d   == process_single_resume(x.ret, response)
          fx2 == fx1 \o Tag(d.fx, 1)
      IN
      IF d.raised
      THEN [added |-> << >>, raised |-> TRUE, fx |-> fx2]
      ELSE IF Truthy(d.ret)
      THEN \* line 241: item assignment raises TypeError on a list
           IF d.ret.type = "dict"
           THEN [added |-> << SetSourceFile(d.ret, uploaded_pdf.name) >>,
                 raised |-> FALSE, fx |-> fx2]
           ELSE [added |-> << >>, raised |-> TRUE, fx |-> fx2]
      ELSE [added |-> << >>, raised |-> FALSE, fx |-> fx2]
    ELSE [added |-> << >>, raised |-> FALSE, fx |-> fx1 \o << Fx("st.error", 1, 0, EmptyStr) >>]

\* "Process All PDFs", lines 286-293
HandleMultiplePdfs(uploaded_pdfs, resps) ==
    LET r == process_multiple_pdfs(uploaded_pdfs, resps)
    IN  IF r.raised
        THEN [added |-> << >>, raised |-> TRUE, fx |-> r.fx]
        ELSE IF r.ret # << >>
        THEN [added |-> r.ret, raised |-> FALSE, fx |-> r.fx]
        ELSE [added |-> << >>, raised |-> FALSE,
              fx |-> r.fx \o << Fx("st.error", 0, 0, EmptyStr) >>]

\* line 320: the slider's upper limit
SliderMax == 20

\* "Process Batch", lines 324-334; the try of line 306 catches what it raises
HandleCsvBatch(df, resps, num_rows) ==
    LET r == process_resumes_from_dataframe(df, resps, num_rows)
    IN  IF r.raised
        THEN [added |-> << >>, raised |-> FALSE,
              fx |-> r.fx \o << Fx("st.error", 0, 0, EmptyStr) >>]
        ELSE IF r.ret # << >>
        THEN [added |-> r.ret, raised |-> FALSE, fx |-> r.fx]
        ELSE [added |-> << >>, raised |-> FALSE,
              fx |-> r.fx \o << Fx("st.error", 0, 0, EmptyStr) >>]

\* A plausible slip: the last record is dropped instead of the list replaced.
cleared_pops_last(collection) == SubSeq(collection, 1, Len(collection) - 1)

\* "Clear Results", line 372
cleared(collection) == << >>

(***************************************************************************)
(* Inputs of the model.                                                    *)
(***************************************************************************)
ResumeTexts == { << >>, <<" ">>, <<"\n">>, <<"a">>, <<"a", "\n">> }

RowTexts == { <<"a">>, <<" ">> }

Page(p, f) == [plumber |-> p, pypdf |-> f]

\* Read by the primary strategy; read by the fallback only; whitespace for
\* both; unreadable.
BatchFiles ==
    { Doc("a.pdf", << Page(<<"a">>, <<"a">>) >>, FALSE, FALSE),
      Doc("b.pdf", << Page(<< >>, <<"a">>) >>, FALSE, FALSE),
      Doc("c.pdf", << Page(<<" ">>, << >>) >>, FALSE, FALSE),
      Doc("d.pdf", << >>, TRUE, FALSE) }

Uploads == { q \in SeqsUpTo(BatchFiles, MaxFiles) : Len(q) >= 1 }

Tables ==
    { [columns |-> cols, rows |-> rows] :
        cols \in { {"ID", "Resume_str"}, {"ID", "Resume"} },
        rows \in { q \in SeqsUpTo(RowTexts, MaxRows) : Len(q) >= 1 } }

Count(fx, e) == Cardinality({ j \in DOMAIN fx : fx[j].e = e })

\* How many calls of the detail extractor returned a truthy value.
Extractions(fx, resps) ==
    Cardinality({ j \in DOMAIN fx :
        /\ fx[j].e = "chat.completions.create"
        /\ Truthy(extract_applicant_details(fx[j].text, resps[fx[j].i]).ret) })

Idle == [fn |-> "idle"]

(***************************************************************************)
(* Spec: one session.  last describes the handler that ran last: the       *)
(* collection before it, its effects counted, and whether Clear Results    *)
(* has been pressed in this session.  appended holds the records appended  *)
(* since the collection was last created or cleared.                       *)
(***************************************************************************)
Ran(op, columns, h, resps) ==
    [op |-> op, before |-> processed_data, columns |-> columns,
     n_requests |-> Count(h.fx, "chat.completions.create"),
     n_progress |-> Count(h.fx, "progress"),
     n_added |-> Len(h.added),
     extractions |-> Extractions(h.fx, resps),
     raised |-> h.raised,
     cleared |-> last.cleared]

Init ==
    /\ processed_data = FreshCollection
    /\ appended = << >>
    /\ last = [op |-> "start", before |-> << >>, columns |-> {}, n_requests |-> 0,
               n_progress |-> 0, n_added |-> 0, extractions |-> 0, raised |-> FALSE,
               cleared |-> FALSE]
    /\ call = Idle

Finish(op, columns, h, resps) ==
    /\ processed_data' = Extend(processed_data, h.added)
    /\ appended' = appended \o h.added
    /\ last' = Ran(op, columns, h, resps)
    /\ UNCHANGED call

TextInput ==
    /\ Len(processed_data) < MaxStore
    /\ \E resume_text \in ResumeTexts, response \in SessionResponses :
         Finish("text_input", {}, HandleTextInput(resume_text, response), << response >>)

SinglePdf ==
    /\ Len(processed_data) < MaxStore
    /\ \E uploaded_pdf \in BatchFiles, response \in SessionResponses :
         Finish("single_pdf", {}, HandleSinglePdf(uploaded_pdf, response), << response >>)

MultiplePdfs ==
    \E uploaded_pdfs \in Uploads :
       /\ Len(processed_data) + Len(uploaded_pdfs) <= MaxStore
       /\ \E resps \in SeqsOfLen(SessionResponses, Len(uploaded_pdfs)) :
            Finish("multiple_pdfs", {}, HandleMultiplePdfs(uploaded_pdfs, resps), resps)

CsvBatch ==
    \E df \in Tables, num_rows \in 1..MaxRows :
       /\ num_rows <= Min(Len(df.rows), SliderMax)
       /\ Len(processed_data) + num_rows <= MaxStore
       /\ \E resps \in SeqsOfLen(SessionResponses, num_rows) :
            Finish("csv_batch", df.columns, HandleCsvBatch(df, resps, num_rows), resps)

\* The button is rendered only when the collection is not empty (line 339).
ClearResults ==
    /\ processed_data # << >>
    /\ processed_data' = cleared(processed_data)
    /\ appended' = << >>
    /\ last' = [op |-> "clear", before |-> << >>, columns |-> {}, n_requests |-> 0,
                n_progress |-> 0, n_added |-> 0, extractions |-> 0, raised |-> FALSE,
                cleared |-> TRUE]
    /\ UNCHANGED call

Next == TextInput \/ SinglePdf \/ MultiplePdfs \/ CsvBatch \/ ClearResults

Spec == Init /\ [][Next]_vars

(***************************************************************************)
(* SpecExtract: extract_text_from_pdf on every document of PdfDocs.        *)
(***************************************************************************)
ExtractText ==
    /\ call.fn = "idle"
    /\ \E pdf \in PdfDocs :
         call' = [fn |-> "extract_text_from_pdf", pdf |-> pdf,
                  out |-> extract_text_from_pdf(pdf)]
    /\ UNCHANGED <<processed_data, appended, last>>

Return ==
    /\ call.fn # "idle"
    /\ call' = Idle
    /\ UNCHANGED <<processed_data, appended, last>>

NextExtract == ExtractText \/ Return

SpecExtract == Init /\ [][NextExtract]_vars

(***************************************************************************)
(* SpecDetail: extract_applicant_details on every text and every answer of *)
(* the service, in a session whose collection is empty or not.             *)
(***************************************************************************)
InitDetail ==
    /\ processed_data \in { << >>, << FullRecord >> }
    /\ appended = processed_data
    /\ last = [op |-> "start", before |-> << >>, columns |-> {}, n_requests |-> 0,
               n_progress |-> 0, n_added |-> 0, extractions |-> 0, raised |-> FALSE,
               cleared |-> FALSE]
    /\ call = Idle

ExtractDetails ==
    /\ call.fn = "idle"
    /\ \E resume_text \in ResumeTexts, response \in Responses :
         call' = [fn |-> "extract_applicant_details", resume_text |-> resume_text,
                  response |-> response, before |-> processed_data,
                  out |-> extract_applicant_details(resume_text, response)]
    /\ UNCHANGED <<processed_data, appended, last>>

NextDetail == ExtractDetails \/ Return

SpecDetail == InitDetail /\ [][NextDetail]_vars

(***************************************************************************)
(* SpecBatch: the two batch functions on every upload and every table,     *)
(* with every combination of answers of the service.                       *)
(***************************************************************************)
ProcessMultiplePdfs ==
    /\ call.fn = "idle"
    /\ \E pdf_files \in Uploads :
         \E resps \in SeqsOfLen(BatchResponses, Len(pdf_files)) :
            call' = [fn |-> "process_multiple_pdfs", pdf_files |-> pdf_files,
                     resps |-> resps, out |-> process_multiple_pdfs(pdf_files, resps)]
    /\ UNCHANGED <<processed_data, appended, last>>

ProcessResumesFromDataframe ==
    /\ call.fn = "idle"
    /\ \E df \in Tables, num_rows \in 1..(MaxRows + 1) :
         \E resps \in SeqsOfLen(BatchResponses, Min(num_rows, Len(df.rows))) :
            call' = [fn |-> "process_resumes_from_dataframe", df |-> df,
                     num_rows |-> num_rows, resps |-> resps,
                     out |-> process_resumes_from_dataframe(df, resps, num_rows)]
    /\ UNCHANGED <<processed_data, appended, last>>

NextBatch == ProcessMultiplePdfs \/ ProcessResumesFromDataframe \/ Return

SpecBatch == Init /\ [][NextBatch]_vars

(***************************************************************************)
(* Properties.                                                             *)
(***************************************************************************)
IsBlank(s) == strip(s) = << >>

YieldsText(pdf_file) == ~IsBlank(extract_text_from_pdf(pdf_file).ret)

RECURSIVE NamesWithText(_)
NamesWithText(pdf_files) ==
    IF pdf_files = << >> THEN << >>
    ELSE (IF YieldsText(Head(pdf_files)) THEN << Head(pdf_files).name >> ELSE << >>)
             \o NamesWithText(Tail(pdf_files))

PdfRun == call.fn = "process_multiple_pdfs"

DfRun == call.fn = "process_resumes_from_dataframe"

Stubbed == \A k \in DOMAIN call.resps : call.resps[k] = Payload(FullRecord)

\* C1: process_multiple_pdfs over N documents, K of which yield empty or
\* whitespace-only text while the service answers every request with a full
\* record, returns N-K entries, in input order, each with source_file equal
\* to the name of its document.
C1_PdfBatchKeepsOrderAndSource ==
    (PdfRun /\ Stubbed) =>
        LET N == Len(call.pdf_files)
            K == Cardinality({ k \in 1..N : ~YieldsText(call.pdf_files[k]) })
            ret == call.out.ret
        IN  /\ ~call.out.raised
            /\ Len(ret) = N - K
            /\ [j \in DOMAIN ret |-> ret[j].source_file] = NamesWithText(call.pdf_files)
            /\ \A j \in DOMAIN ret :
                  ret[j].type = "dict" /\ Properties \cup {"source_file"} = ret[j].keys

C1_Witness ==
    /\ PdfRun /\ Stubbed
    /\ Len(call.pdf_files) = 3
    /\ ~YieldsText(call.pdf_files[2])
    /\ Len(call.out.ret) = 2
    /\ call.out.ret[1].source_file # call.out.ret[2].source_file

ExtractRun == call.fn = "extract_text_from_pdf"

PrimaryBlank(pdf) == ~pdf.plumber_raises /\ IsBlank(PlumberText(pdf.plumber_pages))

\* The stream is reset to offset 0 and the fallback is built on it.
FallbackInvoked(fx) ==
    \E j \in DOMAIN fx :
       /\ fx[j].e = "seek" /\ fx[j].n = 0
       /\ j + 1 \in DOMAIN fx
       /\ fx[j + 1].e = "PyPDF2.PdfReader" /\ fx[j + 1].n = 0

\* C2 as amended: when the primary strategy yields empty or whitespace-only
\* text, the stream is reset to offset 0 and the fallback is invoked; the
\* function returns the fallback's output as it is, whitespace-only output
\* included, and the empty string only when the fallback raises (or reads no
\* page); in each case a result without non-whitespace strips to empty.
C2_FallbackOutputReturnedAsIs ==
    (ExtractRun /\ PrimaryBlank(call.pdf)) =>
        /\ FallbackInvoked(call.out.fx)
        /\ ~call.pdf.pypdf_raises => call.out.ret = PyPdfText(call.pdf.pypdf_pages)
        /\ call.pdf.pypdf_raises => call.out.ret = EmptyStr
        /\ (call.pdf.pypdf_raises \/ \A j \in DOMAIN call.pdf.pypdf_pages :
                                         IsBlank(call.pdf.pypdf_pages[j]))
               => IsBlank(call.out.ret)

C2_Witness ==
    /\ ExtractRun /\ PrimaryBlank(call.pdf)
    /\ ~call.pdf.pypdf_raises
    /\ FallbackInvoked(call.out.fx)
    /\ call.out.ret # EmptyStr
    /\ IsBlank(call.out.ret)

\* C2 as stated: ... returns the fallback's output if it contains
\* non-whitespace, and otherwise the empty string.
C2_Original ==
    (ExtractRun /\ PrimaryBlank(call.pdf)) =>
        /\ FallbackInvoked(call.out.fx)
        /\ IF ~call.pdf.pypdf_raises /\ ~IsBlank(PyPdfText(call.pdf.pypdf_pages))
           THEN call.out.ret = PyPdfText(call.pdf.pypdf_pages)
           ELSE call.out.ret = EmptyStr

\* C3: process_resumes_from_dataframe on a table without the column
\* Resume_str makes no request, reports no progress and returns nothing, and
\* the session's collection is as it was.
C3_MissingColumnAborts ==
    (last.op = "csv_batch" /\ RequiredColumn \notin last.columns) =>
        /\ last.n_requests = 0
        /\ last.n_progress = 0
        /\ last.n_added = 0
        /\ processed_data = last.before

C3_Witness ==
    /\ last.op = "csv_batch"
    /\ RequiredColumn \notin last.columns
    /\ last.before # << >>
    /\ processed_data = last.before

\* C4: Clear Results leaves the collection empty, and the collection always
\* holds what the appends made since the last clear would have put into a
\* freshly created collection.
C4_ClearIsReset ==
    /\ last.op = "clear" => processed_data = << >>
    /\ processed_data = Extend(FreshCollection, appended)

C4_Witness ==
    /\ last.cleared
    /\ last.op # "clear"
    /\ last.before = << >>
    /\ Len(appended) >= 1
    /\ processed_data = appended

\* C5: every record of the collection has the four required fields name,
\* email, skills and experience_years.
C5_StoredRecordsAreComplete ==
    \A j \in DOMAIN processed_data :
        processed_data[j].type = "dict" => Required \subseteq processed_data[j].keys

\* C6: in both batch variants extract_applicant_details is never invoked
\* with empty or whitespace-only text.
C6_NoRequestForBlankText ==
    (PdfRun \/ DfRun) =>
        \A j \in DOMAIN call.out.fx :
            call.out.fx[j].e = "chat.completions.create" => ~IsBlank(call.out.fx[j].text)

\* The number of items of the run: the files, or the first
\* min(num_rows, row count) rows.
Total ==
    IF PdfRun THEN Len(call.pdf_files) ELSE Min(call.num_rows, Len(call.df.rows))

LoopRun == PdfRun \/ (DfRun /\ RequiredColumn \in call.df.columns)

RECURSIVE Select(_, _)
Select(fx, e) ==
    IF fx = << >> THEN << >>
    ELSE (IF Head(fx).e = e THEN << Head(fx) >> ELSE << >>) \o Select(Tail(fx), e)

\* The items visited, in order: the loop announces each with status_text.
Visited(fx) ==
    LET s == Select(fx, "status_text")
    IN  [j \in { m \in DOMAIN s : s[m].i > 0 } |-> s[j].i]

\* C7: a batch run visits every item exactly once, in input order, issues at
\* most one request per item, and no item's failure ends the run early.
C7_EveryItemAttemptedOnce ==
    LoopRun =>
        /\ ~call.out.raised
        /\ Visited(call.out.fx) = [k \in 1..Total |-> k]
        /\ \A k \in 1..Total :
              Cardinality({ j \in DOMAIN call.out.fx :
                  call.out.fx[j].e = "chat.completions.create" /\ call.out.fx[j].i = k }) <= 1

DetailRun == call.fn = "extract_applicant_details"

\* C8: extract_applicant_details never raises, issues exactly one request,
\* returns None on every failure of the service call (network error,
\* authentication error, missing function_call, payload that is not JSON),
\* and leaves the session's collection as it was.
C8_FailuresCollapseToNone ==
    DetailRun =>
        /\ ~call.out.raised
        /\ Count(call.out.fx, "chat.completions.create") = 1
        /\ call.response.outcome \in Failures => call.out.ret = None
        /\ call.response.outcome \notin Failures => call.out.ret = call.response.value
        /\ processed_data = call.before

C8_Witness ==
    /\ DetailRun
    /\ call.response.outcome = "invalid_json"
    /\ call.out.ret = None
    /\ call.before # << >>

\* The effects that are part of attempting an item.
AttemptEffects == {"pdfplumber.open", "seek", "PyPDF2.PdfReader", "chat.completions.create"}

Reports == Select(call.out.fx, "progress")

\* The k-th report shows (k-1)/total: the bar's creation at 0, then i/total
\* for the i-th item.
ReportsCountUp ==
    \A m \in DOMAIN Reports : Reports[m].i = m - 1 /\ Reports[m].n = Total

\* The highest item any effect belongs to.
LastItem == 
    LET fx == call.out.fx
    IN  CHOOSE k \in 0..Total :
           /\ k = 0 \/ \E j \in DOMAIN fx : fx[j].i = k
           /\ \A j \in DOMAIN fx : fx[j].i <= k

IsPrefix(p, q) == Len(p) <= Len(q) /\ SubSeq(q, 1, Len(p)) = p

====
